---- MODULE Spec2Model ----
(***************************************************************************)
(* State-machine model of streamlit_app.py (EDGAR Filing Analyzer).        *)
(*                                                                         *)
(* Time is counted in tenths of a second.  A Python string is a sequence of      *)
(* one-character strings; the fixed URL prefixes are kept as one leading   *)
(* token.  Python None is the record None; a dict is a record or a         *)
(* function whose DOMAIN is its key set; a list is a sequence.             *)
(***************************************************************************)
EXTENDS Integers, Sequences, FiniteSets, TLC

VARIABLES
    clock,            \* wall clock / monotonic timer, in tenths of a second
    company_cache,    \* st.cache_data store of get_company_info, keyed by ticker
    filings_cache,    \* st.cache_data store of get_filings, keyed by <<ticker, filing_type, days_back>>
    analysis_cache,   \* st.cache_data store of analyze_filing_content, keyed by url
    trace,            \* what the most recent handler did: sleeps, HTTP GETs, fetches, st.* calls
    last,             \* the most recent call: function, arguments, returned value
    runs,             \* how many handlers have executed a function body (missed a cache)
    fx,               \* filter study: inputs and result of the filing loop of get_filings
    mx,               \* metrics study: extracted metrics, what is displayed and exported
    ux                \* url study: two (cik, accession, document) triples and their urls

vars == <<clock, company_cache, filings_cache, analysis_cache, trace, last, runs, fx, mx, ux>>

-----------------------------------------------------------------------------
(* Bounds of the model *)

\* number of idle periods (time passing between two reruns)
MaxTicks == 1
\* handlers are started while fewer handlers than this have executed a body
MaxRuns == 2

\* filter study: longest catalog
MaxCatalogLen == 2
\* metrics study: most matches of one pattern in a text
MaxMatches == 2

-----------------------------------------------------------------------------
(* Program constants *)

\* @st.cache_data(ttl=3600), in seconds
ttl == 3600
\* time.sleep(0.1) in sec_request: the sleep is 1/10 s, the unit of time here
UnitsPerSecond == 10
SEC_RATE_LIMIT == 1
\* str(...).zfill(10)
CIK_WIDTH == 10

TtlUnits == ttl * UnitsPerSecond
UnitsPerDay == 24 * 60 * 60 * UnitsPerSecond
\* An idle period is just short of the TTL, so that cache entries are met on
\* both sides of their expiry: younger than, exactly as old as, older than ttl.
IdleUnits == TtlUnits - SEC_RATE_LIMIT

HEADERS ==
    [User_Agent |-> "Rahul Bakshi (rahul.bakshi@tradesforce.ai)",
     Accept_Encoding |-> "gzip, deflate"]

None == [py |-> "None"]

TICKERS_URL == <<"https://www.sec.gov/files/company_tickers.json">>
SUBMISSIONS_BASE == "https://data.sec.gov/submissions/CIK"
ARCHIVE_BASE == "https://www.sec.gov/Archives/edgar/data/"

-----------------------------------------------------------------------------
(* Python string helpers *)

Digit == <<"0", "1", "2", "3", "4", "5", "6", "7", "8", "9">>

\* str(n) for a natural number n
RECURSIVE str(_)
str(n) ==
    IF n < 10 THEN <<Digit[n + 1]>> ELSE str(n \div 10) \o <<Digit[(n % 10) + 1]>>

\* s.zfill(width): left-pad with "0" up to width, never truncate
RECURSIVE zfill(_, _)
zfill(s, width) ==
    IF Len(s) >= width THEN s ELSE zfill(<<"0">> \o s, width)

\* s.replace(ch, '')
RECURSIVE remove_char(_, _)
remove_char(s, ch) ==
    IF s = <<>> THEN <<>>
    ELSE IF Head(s) = ch THEN remove_char(Tail(s), ch)
    ELSE <<Head(s)>> \o remove_char(Tail(s), ch)

\* s.upper() on the ticker inputs of the model
upper(t) ==
    IF t = "aapl" THEN "AAPL" ELSE IF t = "zzzz" THEN "ZZZZ" ELSE t

-----------------------------------------------------------------------------
(* The registry, as the program sees it: the responses handed to requests.get *)

\* wall-clock time at the start of the session: day 400, 09:00
SessionStart == 400 * UnitsPerDay + 9 * 60 * 60 * UnitsPerSecond
Today == SessionStart \div UnitsPerDay

\* company_tickers.json: a mapping from arbitrary keys to entries
TickerTable ==
    << [cik_str |-> 789019, ticker |-> "MSFT", title |-> "MICROSOFT CORP"],
       [cik_str |-> 320193, ticker |-> "AAPL", title |-> "Apple Inc."] >>

EmptyRecent ==
    [form |-> <<>>, filingDate |-> <<>>, accessionNumber |-> <<>>,
     primaryDocument |-> <<>>, has_reportDate |-> TRUE, reportDate |-> <<>>]

Acc1 == <<"0","0","0","0","3","2","0","1","9","3","-","2","3","-","0","0","0","1","0","6">>
Acc2 == <<"0","0","0","0","3","2","0","1","9","3","-","2","3","-","0","0","0","0","7","7">>
Doc1 == <<"a",".","h","t","m">>
Doc2 == <<"q",".","h","t","m">>

\* data['filings']['recent'] of the submissions served for Apple: a 10-K filed
\* 10 days ago and a 10-Q filed 60 days ago
AppleRecent ==
    [form |-> <<"10-K", "10-Q">>,
     filingDate |-> <<Today - 10, Today - 60>>,
     accessionNumber |-> <<Acc1, Acc2>>,
     primaryDocument |-> <<Doc1, Doc2>>,
     has_reportDate |-> TRUE,
     reportDate |-> <<Today - 40, Today - 90>>]

Labels == {"revenue", "net_income", "eps", "operating_income", "cash_flow"}
\* iteration order of metrics_patterns
LabelOrder == <<"revenue", "net_income", "eps", "operating_income", "cash_flow">>

NoMatches == [l \in Labels |-> <<>>]

\* The text of a filing document, as far as the program reads it: per metric
\* pattern the number substrings of its matches in text order, the TextBlob
\* scores (in hundredths) and the length.
TextA ==
    [matches |-> [NoMatches EXCEPT !["revenue"] = << <<"$","1",",","2","0","0">>, <<"8","0","0">> >>,
                                   !["eps"] = << <<",">> >>],
     polarity |-> 25, subjectivity |-> 40, length |-> 5000]
TextB ==
    [matches |-> NoMatches, polarity |-> -10, subjectivity |-> 0, length |-> 0]

Response(status, shape, payload) ==
    [kind |-> "response", status_code |-> status, shape |-> shape, payload |-> payload]
\* requests.get raising (DNS failure, timeout, connection reset)
TransportError(payload) ==
    [kind |-> "exception", status_code |-> 0, shape |-> "", payload |-> payload]

TickerResponses ==
    { Response(200, "tickers", TickerTable),
      Response(429, "garbage", <<>>),
      TransportError(<<>>) }

CatalogResponses ==
    { Response(200, "submissions", AppleRecent),
      Response(200, "nofilings", EmptyRecent),
      Response(429, "garbage", EmptyRecent),
      TransportError(EmptyRecent) }

DocResponses ==
    { Response(200, "html", TextA),
      Response(404, "html", TextB),
      TransportError(TextB) }

\* What the server would answer to a first request and to a retry of it.
Offers(responses) ==
    { o \in responses \X responses :
        \/ o[2] = o[1]
        \/ o[1].status_code = 429 /\ o[2].status_code = 200 /\ o[2].shape # "garbage" }

-----------------------------------------------------------------------------
(* FinancialMetricsExtractor and the display / export of its metrics *)

\* A float is kept as the exact fraction num/den in lowest terms, den > 0.
RECURSIVE gcd(_, _)
gcd(a, b) == IF b = 0 THEN a ELSE gcd(b, a % b)

abs(n) == IF n < 0 THEN -n ELSE n

Float(num, den) ==
    LET g == gcd(abs(num), den)
    IN  [py |-> "float", num |-> num \div g, den |-> den \div g]

IsDigit(c) == \E i \in 1..10 : Digit[i] = c
DigitVal(c) == (CHOOSE i \in 1..10 : Digit[i] = c) - 1

RECURSIVE int_of(_)
int_of(ds) ==
    IF ds = <<>> THEN 0 ELSE int_of(SubSeq(ds, 1, Len(ds) - 1)) * 10 + DigitVal(ds[Len(ds)])

RECURSIVE pow10(_)
pow10(k) == IF k = 0 THEN 1 ELSE 10 * pow10(k - 1)

\* float(cleaned) for a string of digits with at most one '.': the value, or
\* ValueError (None here) when there is no digit or another character
float_of(cleaned) ==
    LET dots == { i \in 1..Len(cleaned) : cleaned[i] = "." }
        dot == IF dots = {} THEN Len(cleaned) + 1 ELSE CHOOSE i \in dots : TRUE
        whole == SubSeq(cleaned, 1, dot - 1)
        frac == SubSeq(cleaned, dot + 1, Len(cleaned))
        wellformed ==
            /\ Cardinality(dots) <= 1
            /\ \A i \in 1..Len(cleaned) : i \in dots \/ IsDigit(cleaned[i])
            /\ Len(whole) + Len(frac) > 0
    IN  IF wellformed THEN Float(int_of(whole \o frac), pow10(Len(frac))) ELSE None

\* FinancialMetricsExtractor._parse_number
parse_number(number_str) ==
    float_of(remove_char(remove_char(number_str, "$"), ","))

\* values of one metric: every match's parsed number, in text order
parse_all(strs) == [i \in 1..Len(strs) |-> parse_number(strs[i])]

\* FinancialMetricsExtractor.extract_metrics: a defaultdict(list), which holds
\* a key only for a pattern with at least one match
extract_metrics(text) ==
    [l \in { k \in Labels : text.matches[k] # <<>> } |-> parse_all(text.matches[l])]

\* [v for v in values if v is not None]
RECURSIVE valid_values(_)
valid_values(values) ==
    IF values = <<>> THEN <<>>
    ELSE IF Head(values) = None THEN valid_values(Tail(values))
    ELSE <<Head(values)>> \o valid_values(Tail(values))

RECURSIVE float_sum(_)
float_sum(vs) ==
    IF vs = <<>> THEN Float(0, 1)
    ELSE LET r == float_sum(Tail(vs))
             h == Head(vs)
         IN  Float(h.num * r.den + r.num * h.den, h.den * r.den)

\* np.mean of a non-empty list
np_mean(vs) ==
    LET t == float_sum(vs) IN Float(t.num, t.den * Len(vs))

\* f"${avg_value:,.2f}": the amount in cents, rounded half to even
format_amount(v) ==
    LET q == (abs(v.num) * 100) \div v.den
        r == (abs(v.num) * 100) % v.den
        up == (2 * r > v.den) \/ (2 * r = v.den /\ q % 2 = 1)
        c == IF up THEN q + 1 ELSE q
    IN  [text |-> "amount", cents |-> IF v.num < 0 THEN -c ELSE c]

NotFoundText == [text |-> "Not found", cents |-> 0]

\* metric_name.replace('_', ' ').title()
title(metric_name) ==
    CASE metric_name = "revenue" -> "Revenue"
      [] metric_name = "net_income" -> "Net Income"
      [] metric_name = "eps" -> "Eps"
      [] metric_name = "operating_income" -> "Operating Income"
      [] metric_name = "cash_flow" -> "Cash Flow"

StMetric(label, value) == [op |-> "st.metric", label |-> label, value |-> value]

\* one pass of the loop of display_metrics over metrics.items()
display_one(metric_name, values) ==
    IF values # <<>> /\ Len(values) > 0 /\ \E i \in 1..Len(values) : values[i] # None
    THEN IF valid_values(values) # <<>>
         THEN <<StMetric(title(metric_name), format_amount(np_mean(valid_values(values))))>>
         ELSE <<StMetric(title(metric_name), NotFoundText)>>
    ELSE <<>>

RECURSIVE display_from(_, _)
display_from(metrics, k) ==
    IF k > Len(LabelOrder) THEN <<>>
    ELSE (IF LabelOrder[k] \in DOMAIN metrics
          THEN display_one(LabelOrder[k], metrics[LabelOrder[k]])
          ELSE <<>>) \o display_from(metrics, k + 1)

\* display_metrics: the st.metric calls of the first column and the sentiment
\* line of the second; nothing at all for an empty metrics dict
display_metrics(metrics, sentiment) ==
    IF DOMAIN metrics # {}
    THEN display_from(metrics, 1)
         \o <<[op |-> "st.markdown", polarity |-> sentiment.polarity,
               color |-> IF sentiment.polarity > 0 THEN "green" ELSE "red",
               subjectivity |-> sentiment.subjectivity]>>
    ELSE <<>>

ExportName ==
    [l \in Labels |->
        CASE l = "revenue" -> "Revenue"
          [] l = "net_income" -> "Net Income"
          [] l = "eps" -> "EPS"
          [] l = "operating_income" -> "Operating Income"
          [] l = "cash_flow" -> "Cash Flow"]

\* create_analysis_dataframe: one row per metric of the fixed list
create_analysis_dataframe(metrics) ==
    [k \in 1..Len(LabelOrder) |->
        LET values == IF LabelOrder[k] \in DOMAIN metrics THEN metrics[LabelOrder[k]] ELSE <<>>
            valid == valid_values(values)
        IN  [Metric |-> ExportName[LabelOrder[k]],
             Value |-> IF valid # <<>> THEN np_mean(valid) ELSE Float(0, 1)]]

-----------------------------------------------------------------------------
(* get_company_info's identifier and the filing loop of get_filings *)

\* str(entry['cik_str']).zfill(10)
cik_of(cik_str) == zfill(str(cik_str), CIK_WIDTH)

\* f'https://data.sec.gov/submissions/CIK{cik}.json'
submissions_url(cik) == <<SUBMISSIONS_BASE>> \o cik \o <<".", "j", "s", "o", "n">>

\* the hyphens taken out of the whole path instead of the accession number
document_url_strip_path(cik, accessionNumber, primaryDocument) ==
    <<ARCHIVE_BASE>> \o remove_char(cik \o <<"/">> \o accessionNumber \o <<"/">>
                                       \o primaryDocument, "-")

\* acc_no = accessionNumber.replace('-', '');
\* f"https://www.sec.gov/Archives/edgar/data/{cik}/{acc_no}/{primaryDocument}"
document_url(cik, accessionNumber, primaryDocument) ==
    <<ARCHIVE_BASE>> \o cik \o <<"/">> \o remove_char(accessionNumber, "-")
        \o <<"/">> \o primaryDocument

\* datetime.strptime(filingDate, '%Y-%m-%d'): midnight of that day; a date is
\* kept as its day number
strptime(day) == day * UnitsPerDay

\* timedelta(days=days_back)
timedelta(days) == days * UnitsPerDay

\* the test of one position of the catalog
in_window(recent, i, filing_type, days_back, now) ==
    /\ recent.form[i] = filing_type
    /\ now - timedelta(days_back) <= strptime(recent.filingDate[i])
    /\ strptime(recent.filingDate[i]) <= now

\* recent.get('reportDate', [''])[i] raises IndexError when the key is absent
\* and i is not the first position (i counts from 1 here)
report_date_raises(recent, i) == ~recent.has_reportDate /\ i > 1

filing_record(recent, i, cik) ==
    [date |-> recent.filingDate[i],
     form |-> recent.form[i],
     url |-> document_url(cik, recent.accessionNumber[i], recent.primaryDocument[i]),
     description |-> IF recent.has_reportDate THEN <<recent.reportDate[i]>> ELSE <<>>]

\* for i in range(len(recent['form'])): ... filings.append(...); the loop stops
\* at the first exception, which get_filings then catches
RECURSIVE filing_loop(_, _, _, _, _, _, _)
filing_loop(recent, cik, filing_type, days_back, now, i, filings) ==
    IF i > Len(recent.form) THEN [raised |-> FALSE, filings |-> filings]
    ELSE IF in_window(recent, i, filing_type, days_back, now)
    THEN IF report_date_raises(recent, i)
         THEN [raised |-> TRUE, filings |-> filings]
         ELSE filing_loop(recent, cik, filing_type, days_back, now, i + 1,
                          Append(filings, filing_record(recent, i, cik)))
    ELSE filing_loop(recent, cik, filing_type, days_back, now, i + 1, filings)

\* lines 173-196 of get_filings: the list returned for a catalog, [] when the
\* loop raised
filter_filings(recent, cik, filing_type, days_back, now) ==
    LET r == filing_loop(recent, cik, filing_type, days_back, now, 1, <<>>)
    IN  IF r.raised THEN <<>> ELSE r.filings

-----------------------------------------------------------------------------
(* The pipeline.  A function of the program is an operator from the state   *)
(* s = [clock, company_cache, filings_cache, analysis_cache, trace] and its *)
(* arguments to the state it leaves and the value it returns.  "how" names  *)
(* the path taken through the function; no returned value depends on it.    *)

EvSleep(ms) == [op |-> "sleep", ms |-> ms]
EvGet(url, headers, response) ==
    [op |-> "get", url |-> url, headers |-> headers,
     kind |-> response.kind, status_code |-> response.status_code]
\* one call of sec_request: what the server had to offer to a first request
\* and to a retry, and what the caller got
EvFetch(url, offer, response) ==
    [op |-> "fetch", url |-> url,
     offered |-> <<[kind |-> offer[1].kind, status_code |-> offer[1].status_code],
                   [kind |-> offer[2].kind, status_code |-> offer[2].status_code]>>,
     returned |-> [kind |-> response.kind, status_code |-> response.status_code]]
EvSt(call, msg) == [op |-> call, msg |-> msg]

Result(s, ret, how, hit) == [s |-> s, ret |-> ret, how |-> how, hit |-> hit]

time_sleep(s, ms) ==
    [s EXCEPT !.clock = @ + ms, !.trace = Append(@, EvSleep(ms))]

requests_get(s, url, headers, response) ==
    [s EXCEPT !.trace = Append(@, EvGet(url, headers, response))]

st_call(s, call, msg) == [s EXCEPT !.trace = Append(@, EvSt(call, msg))]

\* sec_request: sleep 0.1 s, one GET with HEADERS, return (or raise) its outcome
sec_request(s, url, offer) ==
    LET s1 == time_sleep(s, SEC_RATE_LIMIT)
        s2 == requests_get(s1, url, HEADERS, offer[1])
    IN  [s |-> [s2 EXCEPT !.trace = Append(@, EvFetch(url, offer, offer[1]))],
         response |-> offer[1]]

\* st.cache_data(ttl=3600): an entry is returned while it is younger than ttl
EmptyCache == [k \in {} |-> None]

cache_fresh(cache, key, now) ==
    key \in DOMAIN cache /\ now - cache[key].stored < TtlUnits

cache_expire(cache, now) ==
    [k \in { j \in DOMAIN cache : now - cache[j].stored < TtlUnits } |-> cache[k]]

\* a store that keeps results only and drops the values of failed runs
cache_store_results_only(cache, key, value, how, now) ==
    IF how \in {"network_error", "http_error", "malformed", "exception"}
    THEN cache_expire(cache, now)
    ELSE (key :> [value |-> value, how |-> how, stored |-> now]) @@ cache_expire(cache, now)

cache_store(cache, key, value, how, now) ==
    (key :> [value |-> value, how |-> how, stored |-> now]) @@ cache_expire(cache, now)

Failures == {"network_error", "http_error", "malformed", "exception"}

\* get_company_info from the response on: status check, json(), linear scan
company_of_response(q, ticker) ==
    IF q.response.kind = "exception"
    THEN Result(st_call(q.s, "st.error", "Error looking up company"), None, "network_error", FALSE)
    ELSE IF q.response.status_code # 200
    THEN Result(st_call(q.s, "st.error", "Error accessing SEC API"), None, "http_error", FALSE)
    ELSE IF q.response.shape # "tickers"
    THEN Result(st_call(q.s, "st.error", "Error looking up company"), None, "malformed", FALSE)
    ELSE IF \A i \in 1..Len(q.response.payload) : q.response.payload[i].ticker # upper(ticker)
    THEN Result(q.s, None, "unknown_ticker", FALSE)
    ELSE LET data == q.response.payload
             entry == data[CHOOSE i \in 1..Len(data) :
                             /\ data[i].ticker = upper(ticker)
                             /\ \A j \in 1..(i - 1) : data[j].ticker # upper(ticker)]
         IN  Result(q.s, [py |-> "dict", cik |-> cik_of(entry.cik_str),
                          name |-> entry.title, ticker |-> entry.ticker], "found", FALSE)

\* the body of get_company_info
get_company_info_body(s, ticker, offer) ==
    company_of_response(sec_request(s, TICKERS_URL, offer), ticker)

\* st.cache_data keeping the value a body returned
store_company(b, ticker) ==
    [b EXCEPT !.s.company_cache = cache_store(@, ticker, b.ret, b.how, b.s.clock)]

get_company_info(s, ticker, offer) ==
    IF cache_fresh(s.company_cache, ticker, s.clock)
    THEN Result(s, s.company_cache[ticker].value, s.company_cache[ticker].how, TRUE)
    ELSE store_company(get_company_info_body(s, ticker, offer), ticker)

\* datetime.now()
datetime_now(s) == SessionStart + s.clock

\* get_filings from data['filings']['recent'] on
filings_of_loop(s, loop) ==
    IF loop.raised
    THEN Result(st_call(s, "st.error", "Error processing filings"), <<>>, "exception", FALSE)
    ELSE Result(s, loop.filings, IF loop.filings = <<>> THEN "no_match" ELSE "matched", FALSE)

\* get_filings from the response on: status check, json(), 'filings' check
filings_of_response(q, cik, filing_type, days_back) ==
    IF q.response.kind = "exception"
    THEN Result(st_call(q.s, "st.error", "Error processing filings"), <<>>, "network_error", FALSE)
    ELSE IF q.response.status_code # 200
    THEN Result(st_call(q.s, "st.error", "Error fetching filings"), <<>>, "http_error", FALSE)
    ELSE IF q.response.shape = "garbage"
    THEN Result(st_call(q.s, "st.error", "Error processing filings"), <<>>, "malformed", FALSE)
    ELSE IF q.response.shape = "nofilings"
    THEN Result(st_call(q.s, "st.error", "Invalid response format from SEC"), <<>>, "malformed", FALSE)
    ELSE filings_of_loop(q.s, filing_loop(q.response.payload, cik, filing_type, days_back,
                                          datetime_now(q.s), 1, <<>>))

\* get_filings from the company on
filings_of_company(c, filing_type, days_back, coffer) ==
    IF c.ret = None
    THEN Result(c.s, <<>>, c.how, FALSE)
    ELSE filings_of_response(sec_request(c.s, submissions_url(c.ret.cik), coffer),
                             c.ret.cik, filing_type, days_back)

\* the body of get_filings
get_filings_body(s, ticker, filing_type, days_back, toffer, coffer) ==
    filings_of_company(get_company_info(s, ticker, toffer), filing_type, days_back, coffer)

store_filings(b, key) ==
    [b EXCEPT !.s.filings_cache = cache_store(@, key, b.ret, b.how, b.s.clock)]

get_filings(s, ticker, filing_type, days_back, toffer, coffer) ==
    IF cache_fresh(s.filings_cache, <<ticker, filing_type, days_back>>, s.clock)
    THEN Result(s, s.filings_cache[<<ticker, filing_type, days_back>>].value,
                s.filings_cache[<<ticker, filing_type, days_back>>].how, TRUE)
    ELSE store_filings(get_filings_body(s, ticker, filing_type, days_back, toffer, coffer),
                       <<ticker, filing_type, days_back>>)

\* analyze_filing_content from the response on
analysis_of_response(s, response) ==
    IF response.kind = "exception"
    THEN Result(st_call(s, "st.error", "Error analyzing filing"), None, "network_error", FALSE)
    ELSE IF response.status_code # 200
    THEN Result(s, None, "http_error", FALSE)
    ELSE Result(s, [py |-> "dict",
                    metrics |-> extract_metrics(response.payload),
                    sentiment |-> [polarity |-> response.payload.polarity,
                                   subjectivity |-> response.payload.subjectivity],
                    text_length |-> response.payload.length], "analyzed", FALSE)

\* the same GET without the headers argument
analyze_filing_content_body_bare(s, url, response) ==
    analysis_of_response(requests_get(s, url, <<>>, response), response)

\* the body of analyze_filing_content: one GET with HEADERS and no sleep
analyze_filing_content_body(s, url, response) ==
    analysis_of_response(requests_get(s, url, HEADERS, response), response)

store_analysis(b, url) ==
    [b EXCEPT !.s.analysis_cache = cache_store(@, url, b.ret, b.how, b.s.clock)]

analyze_filing_content(s, url, response) ==
    IF cache_fresh(s.analysis_cache, url, s.clock)
    THEN Result(s, s.analysis_cache[url].value, s.analysis_cache[url].how, TRUE)
    ELSE store_analysis(analyze_filing_content_body(s, url, response), url)

\* display_metrics, create_analysis_dataframe and the download button of one
\* expander of main
show_analysis(a) ==
    IF a.ret # None
    THEN [a.s EXCEPT !.trace = @ \o display_metrics(a.ret.metrics, a.ret.sentiment)
                                 \o <<[op |-> "st.download_button",
                                       rows |-> create_analysis_dataframe(a.ret.metrics)]>>]
    ELSE a.s

\* for filing in filings: ...
RECURSIVE show_filings(_, _, _, _)
show_filings(s, filings, docs, i) ==
    IF i > Len(filings) THEN s
    ELSE show_filings(show_analysis(analyze_filing_content(s, filings[i].url, docs[i])),
                      filings, docs, i + 1)

\* main from the filings on
main_of_filings(c, f, docs) ==
    IF f.ret = <<>>
    THEN Result(st_call(f.s, "st.info", "No filings found"), <<c.ret, f.ret>>, f.how, f.hit)
    ELSE Result(st_call(show_filings(f.s, f.ret, docs, 1), "st.download_button",
                        "Download All Filings Data"),
                <<c.ret, f.ret>>, f.how, f.hit)

\* main from the company on
main_of_company(c, ticker, filing_type, days_back, toffer, coffer, docs) ==
    IF c.ret = None
    THEN Result(st_call(c.s, "st.error", "Could not find company information"),
                <<c.ret, <<>>>>, c.how, c.hit)
    ELSE main_of_filings(c, get_filings(c.s, ticker, filing_type, days_back, toffer, coffer),
                         docs)

\* main: one rerun of the script with the sidebar inputs
main(s, ticker_input, filing_type, days_back, toffer, coffer, docs) ==
    IF upper(ticker_input) = ""
    THEN Result(st_call(s, "st.info", "Please enter a stock ticker to begin analysis."),
                <<None, <<>>>>, "no_input", FALSE)
    ELSE main_of_company(get_company_info(s, upper(ticker_input), toffer),
                         upper(ticker_input), filing_type, days_back, toffer, coffer, docs)

-----------------------------------------------------------------------------
(* Specification of the pipeline *)

TickerArgs == {"AAPL", "ZZZZ"}
TickerInputs == {"", "aapl", "ZZZZ"}
\* the sidebar's form type and look-back window, as they are combined here
Filters == {<<"10-K", 90>>, <<"10-Q", 30>>}
DocumentUrls ==
    { document_url(cik_of(TickerTable[2].cik_str), AppleRecent.accessionNumber[i],
                   AppleRecent.primaryDocument[i]) : i \in 1..Len(AppleRecent.form) }

NoCall == [fn |-> "none", args |-> <<>>, ret |-> None, how |-> "none", hit |-> FALSE, start |-> 0]

NoStudy == [done |-> FALSE]

\* the state a handler starts from; the trace is that of the handler alone
Now ==
    [clock |-> clock, company_cache |-> company_cache, filings_cache |-> filings_cache,
     analysis_cache |-> analysis_cache, trace |-> <<>>]

\* a response set when the call needs one, a single placeholder when it does not
Drawn(needed, responses) ==
    IF needed THEN Offers(responses) ELSE { CHOOSE o \in Offers(responses) : TRUE }

\* handlers are taken while the model's budget of runs and idle periods lasts
Ticks == clock \div IdleUnits
Sleeps == (clock % IdleUnits) \div SEC_RATE_LIMIT
CanCall == runs < MaxRuns

Commit(r, fn, args) ==
    /\ clock' = r.s.clock
    /\ company_cache' = r.s.company_cache
    /\ filings_cache' = r.s.filings_cache
    /\ analysis_cache' = r.s.analysis_cache
    /\ trace' = r.s.trace
    /\ last' = [fn |-> fn, args |-> args, ret |-> r.ret, how |-> r.how, hit |-> r.hit,
                start |-> clock]
    /\ runs' = IF <<r.s.company_cache, r.s.filings_cache, r.s.analysis_cache>>
                    = <<company_cache, filings_cache, analysis_cache>>
               THEN runs ELSE runs + 1
    /\ UNCHANGED <<fx, mx, ux>>

\* the process right after start: nothing cached, nothing called
Fresh ==
    /\ clock = 0
    /\ company_cache = EmptyCache
    /\ filings_cache = EmptyCache
    /\ analysis_cache = EmptyCache
    /\ trace = <<>>
    /\ last = NoCall
    /\ runs = 0

pipeline == <<clock, company_cache, filings_cache, analysis_cache, trace, last, runs>>

Init ==
    /\ Fresh
    /\ fx = NoStudy
    /\ mx = NoStudy
    /\ ux = NoStudy

CallGetCompanyInfo ==
    /\ CanCall
    /\ \E ticker \in TickerArgs :
       \E toffer \in Drawn(~cache_fresh(company_cache, ticker, clock), TickerResponses) :
          Commit(get_company_info(Now, ticker, toffer), "get_company_info", <<ticker>>)

CallGetFilings ==
    /\ CanCall
    /\ \E ticker \in TickerArgs, filter \in Filters :
       \E toffer \in Drawn(/\ ~cache_fresh(filings_cache, <<ticker, filter[1], filter[2]>>, clock)
                           /\ ~cache_fresh(company_cache, ticker, clock),
                           TickerResponses) :
       \E coffer \in Drawn(/\ ~cache_fresh(filings_cache, <<ticker, filter[1], filter[2]>>, clock)
                           /\ get_company_info(Now, ticker, toffer).ret # None,
                           CatalogResponses) :
          Commit(get_filings(Now, ticker, filter[1], filter[2], toffer, coffer),
                 "get_filings", <<ticker, filter[1], filter[2]>>)

CallAnalyzeFilingContent ==
    /\ CanCall
    /\ \E url \in DocumentUrls :
       \E response \in (IF cache_fresh(analysis_cache, url, clock)
                        THEN { CHOOSE d \in DocResponses : TRUE } ELSE DocResponses) :
          Commit(analyze_filing_content(Now, url, response), "analyze_filing_content", <<url>>)

\* the catalog response main draws: none when the company is not found or the
\* filings are served from the cache
MainNeedsCatalog(c, ticker, filing_type, days_back) ==
    /\ ticker # ""
    /\ c.ret # None
    /\ ~cache_fresh(c.s.filings_cache, <<ticker, filing_type, days_back>>, c.s.clock)

\* the number of filings main walks through
MainFilings(c, ticker, filing_type, days_back, toffer, coffer) ==
    IF ticker = "" \/ c.ret = None THEN 0
    ELSE Len(get_filings(c.s, ticker, filing_type, days_back, toffer, coffer).ret)

Main ==
    /\ CanCall
    /\ \E ticker_input \in TickerInputs, filter \in Filters :
       \E toffer \in Drawn(upper(ticker_input) # ""
                             /\ ~cache_fresh(company_cache, upper(ticker_input), clock),
                           TickerResponses) :
       \E coffer \in Drawn(MainNeedsCatalog(get_company_info(Now, upper(ticker_input), toffer),
                                            upper(ticker_input), filter[1], filter[2]),
                           CatalogResponses) :
       \E docs \in [1..MainFilings(get_company_info(Now, upper(ticker_input), toffer),
                                   upper(ticker_input), filter[1], filter[2], toffer,
                                   coffer) -> DocResponses] :
          Commit(main(Now, ticker_input, filter[1], filter[2], toffer, coffer, docs),
                 "main", <<upper(ticker_input), filter[1], filter[2]>>)

\* time passes between two reruns; entries that have reached ttl by then are
\* never returned again and are dropped here rather than at the next access
Tick ==
    /\ Ticks < MaxTicks
    /\ clock' = clock + IdleUnits
    /\ company_cache' = cache_expire(company_cache, clock')
    /\ filings_cache' = cache_expire(filings_cache, clock')
    /\ analysis_cache' = cache_expire(analysis_cache, clock')
    /\ trace' = <<>>
    /\ last' = NoCall
    /\ UNCHANGED <<runs, fx, mx, ux>>

Next ==
    \/ CallGetCompanyInfo
    \/ CallGetFilings
    \/ CallAnalyzeFilingContent
    \/ Main
    \/ Tick

Spec == Init /\ [][Next]_vars

-----------------------------------------------------------------------------
(* Filter study: the filing loop of get_filings on catalogs, form types,    *)
(* windows and times of day drawn from bounded sets                         *)

StudyCik == cik_of(TickerTable[2].cik_str)
StudyForms == {"10-K", "10-Q"}
StudyDays == {30, 365}
\* filing dates around both ends of both windows
StudyDates == {Today - 365, Today - 31, Today - 30, Today - 29, Today, Today + 1}
\* datetime.now(): today at midnight, just after midnight, at 09:00
StudyNows == {Today * UnitsPerDay, Today * UnitsPerDay + 1, SessionStart}

\* the accession number and document of position i: distinct per position
StudyAcc(i) == [Acc1 EXCEPT ![20] = Digit[i + 1]]
StudyDoc(i) == <<Digit[i + 1]>> \o Doc1

StudyRecent(forms, dates, has_reportDate) ==
    [form |-> forms,
     filingDate |-> dates,
     accessionNumber |-> [i \in 1..Len(forms) |-> StudyAcc(i)],
     primaryDocument |-> [i \in 1..Len(forms) |-> StudyDoc(i)],
     has_reportDate |-> has_reportDate,
     reportDate |-> [i \in 1..Len(forms) |-> dates[i] - 30]]

StudyCatalogs ==
    UNION { { StudyRecent(forms, dates, h) :
                forms \in [1..n -> StudyForms], dates \in [1..n -> StudyDates],
                h \in BOOLEAN } : n \in 0..MaxCatalogLen }

InitFilter ==
    /\ Fresh
    /\ mx = NoStudy
    /\ ux = NoStudy
    /\ \E recent \in StudyCatalogs, filing_type \in StudyForms, days_back \in StudyDays,
          now \in StudyNows :
          fx = [done |-> FALSE, recent |-> recent, filing_type |-> filing_type,
                days_back |-> days_back, now |-> now, out |-> <<>>]

ApplyFilter ==
    /\ ~fx.done
    /\ fx' = [fx EXCEPT !.done = TRUE,
                        !.out = filter_filings(fx.recent, StudyCik, fx.filing_type,
                                               fx.days_back, fx.now)]
    /\ UNCHANGED <<pipeline, mx, ux>>

NextFilter == ApplyFilter

SpecFilter == InitFilter /\ [][NextFilter]_vars

\* the positions the filter has to keep: the form type equals the requested
\* one and the filing date lies in [today - windowDays, today], ends included
Wanted(recent, filing_type, days_back, today) ==
    { i \in 1..Len(recent.form) :
        /\ recent.form[i] = filing_type
        /\ today - days_back <= recent.filingDate[i]
        /\ recent.filingDate[i] <= today }

\* the accession number of a record, read back from positions 52..69 of its url
RECURSIVE PositionsOf(_, _, _)
PositionsOf(out, recent, k) ==
    IF k > Len(out) THEN <<>>
    ELSE <<CHOOSE i \in 1..Len(recent.form) :
               out[k].url = <<ARCHIVE_BASE>> \o StudyCik \o <<"/">>
                              \o SubSeq(StudyAcc(i), 1, 10) \o SubSeq(StudyAcc(i), 12, 13)
                              \o SubSeq(StudyAcc(i), 15, 20) \o <<"/">> \o StudyDoc(i)>>
         \o PositionsOf(out, recent, k + 1)

Increasing(ps) == \A a, b \in 1..Len(ps) : a < b => ps[a] < ps[b]

\* C5: the filter's output contains position i of the catalog if and only if
\* form[i] equals the requested form type and today - windowDays <= date[i]
\* <= today, both ends inclusive (a filing dated exactly windowDays days
\* before today is included), and the records appear in catalog order.
C5_FilterKeepsExactlyTheWindow ==
    fx.done =>
        LET ps == PositionsOf(fx.out, fx.recent, 1)
        IN  /\ { ps[k] : k \in 1..Len(ps) }
                 = Wanted(fx.recent, fx.filing_type, fx.days_back, fx.now \div UnitsPerDay)
            /\ Increasing(ps)

-----------------------------------------------------------------------------
(* Metrics study: extraction, display and export of the metrics of a text   *)
(* whose pattern matches are drawn from bounded sets                        *)

\* number substrings a pattern match can hold: [$]?[\d,]+\.?\d*
StudyNumbers ==
    { <<"$", "1", ",", "2", "0", "0">>, <<"8", "0", "0">>, <<"2", ".", "5">>,
      <<"0">>, <<",">> }
\* the patterns whose matches vary; the other patterns match nothing
StudyLabels == {"revenue", "eps"}

StudyMatchLists == UNION { [1..n -> StudyNumbers] : n \in 0..MaxMatches }

StudyTexts ==
    { [matches |-> [l \in Labels |-> IF l \in StudyLabels THEN m[l] ELSE <<>>],
       polarity |-> 25, subjectivity |-> 40, length |-> 5000] :
      m \in [StudyLabels -> StudyMatchLists] }

InitMetrics ==
    /\ Fresh
    /\ fx = NoStudy
    /\ ux = NoStudy
    /\ \E text \in StudyTexts :
          mx = [done |-> FALSE, text |-> text, metrics |-> <<>>, shown |-> <<>>,
                exported |-> <<>>]

\* what main does with the analysis of a document: display_metrics and
\* create_analysis_dataframe on analysis['metrics']
ShowMetrics ==
    /\ ~mx.done
    /\ mx' = [mx EXCEPT
                !.done = TRUE,
                !.metrics = extract_metrics(mx.text),
                !.shown = display_metrics(extract_metrics(mx.text),
                                          [polarity |-> mx.text.polarity,
                                           subjectivity |-> mx.text.subjectivity]),
                !.exported = create_analysis_dataframe(extract_metrics(mx.text))]
    /\ UNCHANGED <<pipeline, fx, ux>>

NextMetrics == ShowMetrics

SpecMetrics == InitMetrics /\ [][NextMetrics]_vars

\* the non-null parsed values of a label, from the matches of its pattern
Parsed(text, l) == valid_values(parse_all(text.matches[l]))

RECURSIVE DenProduct(_)
DenProduct(vs) == IF vs = <<>> THEN 1 ELSE Head(vs).den * DenProduct(Tail(vs))

RECURSIVE ScaledSum(_, _)
ScaledSum(vs, d) ==
    IF vs = <<>> THEN 0 ELSE Head(vs).num * (d \div Head(vs).den) + ScaledSum(Tail(vs), d)

\* v is the arithmetic mean of the values vs
IsMeanOf(v, vs) ==
    v.num * DenProduct(vs) * Len(vs) = v.den * ScaledSum(vs, DenProduct(vs))

\* the amount a is the mean of vs, to the cent
ShowsMeanOf(a, vs) ==
    /\ a.text = "amount"
    /\ \E v \in { [py |-> "float", num |-> n, den |-> DenProduct(vs) * Len(vs)] :
                    n \in { ScaledSum(vs, DenProduct(vs)) } } :
          2 * abs(a.cents * v.den - 100 * v.num) <= v.den

ShownFor(l) == { i \in DOMAIN mx.shown : mx.shown[i].op = "st.metric"
                                          /\ mx.shown[i].label = title(l) }
ExportedFor(l) == { i \in DOMAIN mx.exported : mx.exported[i].Metric = ExportName[l] }

\* C7: for every metric label the value shown or exported is the mean of its
\* non-null parsed values when there is one, and is "not found", never the
\* number zero and never left out, when the label has no parsed value.
C7_MeanOrNotFound ==
    mx.done =>
        \A l \in Labels :
            IF Parsed(mx.text, l) # <<>>
            THEN /\ ShownFor(l) # {}
                 /\ \A i \in ShownFor(l) : ShowsMeanOf(mx.shown[i].value, Parsed(mx.text, l))
                 /\ ExportedFor(l) # {}
                 /\ \A i \in ExportedFor(l) : IsMeanOf(mx.exported[i].Value, Parsed(mx.text, l))
            ELSE /\ ShownFor(l) # {}
                 /\ \A i \in ShownFor(l) : mx.shown[i].value = NotFoundText
                 /\ \A i \in ExportedFor(l) : mx.exported[i].Value # Float(0, 1)

-----------------------------------------------------------------------------
(* Url study: document_url on two (identifier, accession number, document)  *)
(* triples drawn from bounded sets                                          *)

\* entry['cik_str'] values of one to ten digits
StudyCikNumbers == {1, 10, 320193, 1234567890}
\* accession numbers: three of the form NNNNNNNNNN-NN-NNNNNN and one with the
\* hyphens of Acc1 moved
StudyAccessions ==
    { Acc1, Acc2, [Acc1 EXCEPT ![1] = "1"],
      <<"0","0","0","0","3","2","0","1","9","-","3","2","3","-","0","0","0","1","0","6">> }
StudyDocuments ==
    { Doc1, <<"a", "-", "b", ".", "h", "t", "m">>, <<"a", "b", ".", "h", "t", "m">>,
      <<"a", "/", "b", ".", "h", "t", "m">> }

StudyTriples ==
    { [cik |-> cik_of(n), accessionNumber |-> a, primaryDocument |-> d] :
        n \in StudyCikNumbers, a \in StudyAccessions, d \in StudyDocuments }

InitUrl ==
    /\ Fresh
    /\ fx = NoStudy
    /\ mx = NoStudy
    /\ \E a \in StudyTriples, b \in StudyTriples :
          ux = [done |-> FALSE, a |-> a, b |-> b, url_a |-> <<>>, url_b |-> <<>>]

BuildUrls ==
    /\ ~ux.done
    /\ ux' = [ux EXCEPT
                !.done = TRUE,
                !.url_a = document_url(ux.a.cik, ux.a.accessionNumber, ux.a.primaryDocument),
                !.url_b = document_url(ux.b.cik, ux.b.accessionNumber, ux.b.primaryDocument)]
    /\ UNCHANGED <<pipeline, fx, mx>>

NextUrl == BuildUrls

SpecUrl == InitUrl /\ [][NextUrl]_vars

AllDigits(str_) == \A i \in 1..Len(str_) : IsDigit(str_[i])

\* a 10-digit identifier and an accession number NNNNNNNNNN-NN-NNNNNN
ValidTriple(t) ==
    /\ Len(t.cik) = 10 /\ AllDigits(t.cik)
    /\ Len(t.accessionNumber) = 20
    /\ t.accessionNumber[11] = "-" /\ t.accessionNumber[14] = "-"
    /\ AllDigits(SubSeq(t.accessionNumber, 1, 10))
    /\ AllDigits(SubSeq(t.accessionNumber, 12, 13))
    /\ AllDigits(SubSeq(t.accessionNumber, 15, 20))

\* url is the archive base, the identifier, "/", the 18 digits of the
\* accession number, "/" and the file name
UrlShape(url, t) ==
    /\ url[1] = ARCHIVE_BASE
    /\ SubSeq(url, 2, 11) = t.cik
    /\ url[12] = "/"
    /\ SubSeq(url, 13, 22) = SubSeq(t.accessionNumber, 1, 10)
    /\ SubSeq(url, 23, 24) = SubSeq(t.accessionNumber, 12, 13)
    /\ SubSeq(url, 25, 30) = SubSeq(t.accessionNumber, 15, 20)
    /\ url[31] = "/"
    /\ SubSeq(url, 32, Len(url)) = t.primaryDocument

\* C8: for 10-digit identifiers and accession numbers NNNNNNNNNN-NN-NNNNNN
\* the document url is base, identifier, "/", accession number without
\* hyphens, "/", file name, and two different triples never get the same url.
C8_DocumentUrlInjective ==
    (ux.done /\ ValidTriple(ux.a) /\ ValidTriple(ux.b)) =>
        /\ UrlShape(ux.url_a, ux.a)
        /\ UrlShape(ux.url_b, ux.b)
        /\ ux.url_a = ux.url_b => ux.a = ux.b

\* two valid triples that differ only in a hyphen of the file name
C8_Witness ==
    /\ ux.done
    /\ ValidTriple(ux.a) /\ ValidTriple(ux.b)
    /\ ux.a.cik = ux.b.cik
    /\ ux.a.accessionNumber = ux.b.accessionNumber
    /\ remove_char(ux.a.primaryDocument, "-") = remove_char(ux.b.primaryDocument, "-")
    /\ ux.a # ux.b
    /\ ux.url_a # ux.url_b

-----------------------------------------------------------------------------
(* Properties of the pipeline, checked under Spec *)

IsGet(e) == e.op = "get"
NoGet(tr) == \A i \in DOMAIN tr : ~IsGet(tr[i])
CatalogGet(e) == IsGet(e) /\ e.url[1] = SUBMISSIONS_BASE
NoCatalogGet(tr) == \A i \in DOMAIN tr : ~CatalogGet(tr[i])

\* C1: whenever the first response of a fetch has status 429, the client waits
\* 10 seconds, issues exactly one retry and hands the retry's outcome to the
\* caller (so the offer [429, 200] yields the 200 response); no fetch issues
\* more than two requests.
C1_RetryOnceOn429 ==
    \A i \in DOMAIN trace :
        (trace[i].op = "fetch" /\ trace[i].offered[1].status_code = 429) =>
            /\ trace[i].returned = trace[i].offered[2]
            /\ i > 4
            /\ IsGet(trace[i - 1]) /\ trace[i - 1].status_code = trace[i].offered[2].status_code
            /\ trace[i - 2].op = "sleep" /\ trace[i - 2].ms = 10 * UnitsPerSecond
            /\ IsGet(trace[i - 3]) /\ trace[i - 3].status_code = 429
            /\ trace[i - 4].op = "sleep"

\* C2: every outbound HTTP request (ticker table, filing catalog, filing
\* document) is immediately preceded by a delay of at least 100 ms.
C2_DelayBeforeEveryRequest ==
    \A i \in DOMAIN trace :
        IsGet(trace[i]) =>
            /\ i > 1
            /\ trace[i - 1].op = "sleep"
            /\ trace[i - 1].ms * 1000 >= 100 * UnitsPerSecond

\* the catalog of the identifier of ticker t is held by a get_filings entry
\* that is younger than ttl
HoldsCatalog(k, t) ==
    /\ cache_fresh(filings_cache, k, clock)
    /\ upper(k[1]) = upper(t)
    /\ filings_cache[k].how \in {"matched", "no_match"}

\* C3: in a sequence of catalog fetches for one identifier, a catalog request
\* is issued if and only if the cache holds no entry for that identifier
\* younger than 3600 seconds.
C3_CatalogRequestIffNoFreshEntry ==
    [][ last'.fn = "get_filings" =>
          /\ (\E k \in DOMAIN filings_cache : HoldsCatalog(k, last'.args[1]))
                => NoCatalogGet(trace')
          /\ ( /\ \A k \in DOMAIN filings_cache : ~HoldsCatalog(k, last'.args[1])
               /\ ~cache_fresh(filings_cache, last'.args, clock)
               /\ last'.args[1] \in DOMAIN company_cache'
               /\ company_cache'[last'.args[1]].how = "found" )
                => ~NoCatalogGet(trace') ]_vars

\* C4: once the catalog of an identifier has been fetched, a request within
\* the TTL window for the same ticker with a different form type or window
\* length issues no new catalog request.
C4_FilterChangeNeverRefetches ==
    [][ ( /\ last'.fn \in {"get_filings", "main"}
          /\ \E k \in DOMAIN filings_cache :
                /\ HoldsCatalog(k, last'.args[1])
                /\ k[1] = last'.args[1]
                /\ (k[2] # last'.args[2] \/ k[3] # last'.args[3]) )
        => NoCatalogGet(trace') ]_vars

\* the four outcomes a caller has to tell apart
Outcome(how) ==
    IF how \in Failures THEN "failure"
    ELSE IF how \in {"matched", "found"} THEN "matched"
    ELSE how

\* C6: the value returned for a request tells matched filings, no match,
\* unknown ticker and failure apart: two calls that end in different outcomes
\* never return the same value.
C6_OutcomesDistinguished ==
    [][ ( /\ last.fn = last'.fn
          /\ last'.fn \in {"get_company_info", "get_filings", "main"}
          /\ Outcome(last.how) \in {"failure", "matched", "no_match", "unknown_ticker"}
          /\ Outcome(last'.how) \in {"failure", "matched", "no_match", "unknown_ticker"}
          /\ Outcome(last.how) # Outcome(last'.how) )
        => last.ret # last'.ret ]_vars

\* C9: every outbound request carries the fixed identifying User-Agent header.
C9_UserAgentOnEveryRequest ==
    \A i \in DOMAIN trace :
        IsGet(trace[i]) =>
            /\ "User_Agent" \in DOMAIN trace[i].headers
            /\ trace[i].headers.User_Agent = "Rahul Bakshi (rahul.bakshi@tradesforce.ai)"

\* a rerun that requested the ticker table, a catalog and a document
C9_Witness ==
    /\ \E i \in DOMAIN trace : IsGet(trace[i]) /\ trace[i].url = TICKERS_URL
    /\ \E i \in DOMAIN trace : CatalogGet(trace[i])
    /\ \E i \in DOMAIN trace : IsGet(trace[i]) /\ trace[i].url[1] = ARCHIVE_BASE

\* a run of a body that failed left its value in the cache, stamped now
FailureStored(cache_after, key, l, now_after) ==
    (~l.hit /\ l.how \in Failures) =>
        /\ l.ret = None \/ l.ret = <<>>
        /\ key \in DOMAIN cache_after
        /\ cache_after[key].value = l.ret
        /\ cache_after[key].stored = now_after

\* a call that finds the value of a failed run younger than ttl returns it and
\* issues no request
FailureServed(cache, key, l, tr) ==
    (cache_fresh(cache, key, clock) /\ cache[key].how \in Failures) =>
        /\ l.hit
        /\ l.ret = cache[key].value
        /\ NoGet(tr)

\* no step changes or drops an entry that is still younger than ttl after it
EntriesKept(cache, cache_after, now_after) ==
    \A k \in DOMAIN cache :
        cache_fresh(cache, k, now_after) => k \in DOMAIN cache_after /\ cache_after[k] = cache[k]

\* C10: failures are memoized like successes: a call of get_company_info,
\* get_filings or analyze_filing_content that ends in a non-200 response or a
\* caught exception returns None or [] and stores it, and an identical call
\* within the next 3600 seconds returns that value without any request.
C10_FailuresMemoized ==
    [][ /\ last'.fn = "get_company_info" =>
              /\ FailureStored(company_cache', last'.args[1], last', clock')
              /\ FailureServed(company_cache, last'.args[1], last', trace')
        /\ last'.fn = "get_filings" =>
              /\ FailureStored(filings_cache', last'.args, last', clock')
              /\ FailureServed(filings_cache, last'.args, last', trace')
        /\ last'.fn = "analyze_filing_content" =>
              /\ FailureStored(analysis_cache', last'.args[1], last', clock')
              /\ FailureServed(analysis_cache, last'.args[1], last', trace')
        /\ EntriesKept(company_cache, company_cache', clock')
        /\ EntriesKept(filings_cache, filings_cache', clock')
        /\ EntriesKept(analysis_cache, analysis_cache', clock') ]_vars

\* get_filings answered from the cache with the [] of a failed fetch, some
\* time after that fetch
C10_Witness ==
    /\ last.fn = "get_filings"
    /\ last.hit
    /\ last.how \in Failures
    /\ last.ret = <<>>
    /\ NoGet(trace)
    /\ last.args \in DOMAIN filings_cache
    /\ clock - filings_cache[last.args].stored >= IdleUnits

====
